---------------------------- MODULE Spec2Model ----------------------------
(***************************************************************************)
(* Model of the options pricing and risk engine (OptionPricer,            *)
(* GreeksCalculator, ScenarioEngine and the run_analysis pipeline).       *)
(*                                                                         *)
(* Numbers.  Python floats are modelled as fixed-point integers with six  *)
(* decimals: the float x is the integer x * ONE.  Products and quotients  *)
(* are rounded to the nearest unit, as a float operation rounds to the    *)
(* nearest representable value, so every arithmetic identity holds up to  *)
(* a few units (Ulp) of rounding, not exactly.  P&L amounts and           *)
(* percentages, which the code scales by 100 and by the position size,    *)
(* are kept in thousandths (PnlOne) so that they stay in range.           *)
(***************************************************************************)
EXTENDS Integers, Sequences, FiniteSets, TLC

(***************************************************************************)
(* Fixed-point arithmetic                                                  *)
(***************************************************************************)
ONE  == 1000000
LIMB == 1000
PnlOne == 1000

Abs(x) == IF x < 0 THEN -x ELSE x
Sgn(x) == IF x < 0 THEN -1 ELSE 1
Max(a, b) == IF a >= b THEN a ELSE b
Min(a, b) == IF a <= b THEN a ELSE b

\* a * b of two non-negative fixed-point numbers, rounded; the operands are
\* split in limbs so that no intermediate product leaves the integer range.
MulAbs(a, b) ==
    LET ah == a \div LIMB
        al == a % LIMB
        bh == b \div LIMB
        bl == b % LIMB
        mid == ah * bl + al * bh + ((al * bl + LIMB \div 2) \div LIMB)
    IN  ah * bh + ((mid + LIMB \div 2) \div LIMB)

Mul(a, b) == Sgn(a) * Sgn(b) * MulAbs(Abs(a), Abs(b))

\* the n next decimal digits of the quotient rem / b appended to acc; the
\* last digit is rounded.
RECURSIVE DivDigits(_, _, _, _)
DivDigits(rem, b, n, acc) ==
    IF n = 0
    THEN acc + (IF 2 * rem >= b THEN 1 ELSE 0)
    ELSE DivDigits((rem * 10) % b, b, n - 1, acc * 10 + ((rem * 10) \div b))

\* a / b of fixed-point numbers, a >= 0, b > 0, by long division.
DivAbs(a, b) == DivDigits(a % b, b, 6, a \div b)

Div(a, b) == Sgn(a) * Sgn(b) * DivAbs(Abs(a), Abs(b))

\* a fixed-point number divided by the integer n > 0, rounded.
IDiv(a, n) == Sgn(a) * ((Abs(a) + n \div 2) \div n)

(***************************************************************************)
(* The math library: math.sqrt, math.exp, math.log, math.erf               *)
(***************************************************************************)
LN2     == 693147
SQRT2   == 1414214
SQRT2PI == 2506628

RECURSIVE SqrtIter(_, _, _)
SqrtIter(x, g, n) ==
    LET g2 == (g + DivAbs(x, g)) \div 2
    IN  IF n = 0 \/ g2 = g THEN g2 ELSE SqrtIter(x, g2, n - 1)

\* math.sqrt(x), x >= 0: Newton's iteration.
Sqrt(x) == IF x = 0 THEN 0 ELSE SqrtIter(x, IF x < 4 * ONE THEN ONE ELSE x \div 2, 40)

RECURSIVE ExpSeries(_, _, _, _)
ExpSeries(rr, term, k, acc) ==
    IF k > 12 \/ term = 0
    THEN acc
    ELSE LET t == IDiv(Mul(term, rr), k)
         IN  ExpSeries(rr, t, k + 1, acc + t)

RECURSIVE Pow2(_)
Pow2(k) == IF k = 0 THEN 1 ELSE 2 * Pow2(k - 1)

\* math.exp(x): x = k * ln 2 + rr with 0 <= rr < ln 2, the series on rr.
Exp(x) ==
    IF x < -40 * ONE
    THEN 0
    ELSE LET k  == IF x >= 0 THEN x \div LN2 ELSE -((-x + LN2 - 1) \div LN2)
             rr == x - k * LN2
             e  == ExpSeries(rr, ONE, 1, ONE)
         IN  IF k >= 0 THEN e * Pow2(k)
             ELSE IF -k > 30 THEN 0
             ELSE IDiv(e, Pow2(-k))

RECURSIVE LnSeries(_, _, _, _)
LnSeries(z2, term, k, acc) ==
    IF k > 25 \/ term = 0
    THEN acc
    ELSE LET t == Mul(term, z2)
         IN  LnSeries(z2, t, k + 2, acc + IDiv(t, k))

\* math.log(x), x > 0: 2 * atanh((x - 1) / (x + 1)) after halving or
\* doubling x into [1/2, 2).
RECURSIVE Ln(_)
Ln(x) ==
    IF x >= 2 * ONE THEN LN2 + Ln(IDiv(x, 2))
    ELSE IF x <= ONE \div 2 THEN Ln(2 * x) - LN2
    ELSE LET z == Div(x - ONE, x + ONE)
         IN  2 * LnSeries(Mul(z, z), z, 3, z)

ErfP  == 327591
ErfA1 == 254830
ErfA2 == -284497
ErfA3 == 1421414
ErfA4 == -1453152
ErfA5 == 1061405

\* math.erf(x) for x >= 0 (Abramowitz and Stegun 7.1.26); 1.0 from x = 6 on,
\* as in double precision.
ErfAbs(x) ==
    IF x >= 6 * ONE
    THEN ONE
    ELSE LET t == DivAbs(ONE, ONE + MulAbs(ErfP, x))
             poly == Mul(Mul(Mul(Mul(Mul(ErfA5, t) + ErfA4, t) + ErfA3, t) + ErfA2, t) + ErfA1, t)
         IN  ONE - Mul(poly, Exp(-MulAbs(x, x)))

Erf(x) == Sgn(x) * ErfAbs(Abs(x))

(***************************************************************************)
(* black_scholes.py                                                        *)
(***************************************************************************)
\* norm_cdf(x) = 0.5 * (1.0 + math.erf(x / math.sqrt(2.0)))
norm_cdf(x) == IDiv(ONE + Erf(Div(x, SQRT2)), 2)

\* norm_pdf(x) = math.exp(-0.5 * x * x) / math.sqrt(2.0 * math.pi); the
\* exponential underflows to 0.0 from |x| = 39 on.
norm_pdf(x) ==
    IF Abs(x) >= 39 * ONE THEN 0 ELSE Div(Exp(-IDiv(Mul(x, x), 2)), SQRT2PI)


\* OptionPricer.__init__: T = max(T, 0.001); the other arguments are stored
\* as given.
TFloor == 1000

\* fault: T stored as given
OptionPricer_unfloored(S, K, T, r, sigma_hv, sigma_iv) ==
    [S |-> S, K |-> K, T |-> T, r |-> r,
     sigma_hv |-> sigma_hv, sigma_iv |-> sigma_iv]

OptionPricer(S, K, T, r, sigma_hv, sigma_iv) ==
    [S |-> S, K |-> K, T |-> Max(T, TFloor), r |-> r,
     sigma_hv |-> sigma_hv, sigma_iv |-> sigma_iv]

\* the divisor sigma * math.sqrt(self.T) of _d1
D1Divisor(p, sigma) == Mul(sigma, Sqrt(p.T))

\* _d1 raises ZeroDivisionError when its divisor is 0.0
D1Raises(p, sigma) == D1Divisor(p, sigma) = 0

_d1(p, sigma) ==
    LET numerator == Ln(Div(p.S, p.K)) + Mul(p.r + IDiv(Mul(sigma, sigma), 2), p.T)
    IN  Div(numerator, D1Divisor(p, sigma))

_d2(p, sigma) == _d1(p, sigma) - Mul(sigma, Sqrt(p.T))

\* K * exp(-r * T)
DiscountedStrike(K, r, T) == Mul(K, Exp(-Mul(r, T)))

_bs_call_price(p, sigma) ==
    LET d1 == _d1(p, sigma)
        d2 == _d2(p, sigma)
    IN  Mul(p.S, norm_cdf(d1)) - Mul(DiscountedStrike(p.K, p.r, p.T), norm_cdf(d2))

\* fault: the put priced with N(d2) and N(d1) instead of N(-d2) and N(-d1)
_bs_put_price_unsigned(p, sigma) ==
    LET d1 == _d1(p, sigma)
        d2 == _d2(p, sigma)
    IN  Mul(DiscountedStrike(p.K, p.r, p.T), norm_cdf(d2)) - Mul(p.S, norm_cdf(d1))

_bs_put_price(p, sigma) ==
    LET d1 == _d1(p, sigma)
        d2 == _d2(p, sigma)
    IN  Mul(DiscountedStrike(p.K, p.r, p.T), norm_cdf(-d2)) - Mul(p.S, norm_cdf(-d1))

\* ((price_iv - price_hv) / price_hv) * 100 if price_hv > 0 else 0, in
\* thousandths of a percent; a quotient beyond the range of the model
\* saturates at PctCap, far above every threshold it is compared with.
PctCap == 2000000000

PctOf(a, b) ==
    IF Abs(a) \div b >= 2000
    THEN Sgn(a) * PctCap
    ELSE IDiv(Div(a, b), ONE \div (100 * PnlOne))

\* fault: the difference taken the other way round
mispricing_pct_swapped(price_hv, price_iv) ==
    IF price_hv > 0 THEN PctOf(price_hv - price_iv, price_hv) ELSE 0

mispricing_pct(price_hv, price_iv) ==
    IF price_hv > 0 THEN PctOf(price_iv - price_hv, price_hv) ELSE 0

ExpensiveAbove == 20
CheapBelow == -20

_get_valuation(price_hv, price_iv) ==
    LET diff_pct == IF price_hv > 0 THEN PctOf(price_iv - price_hv, price_hv) ELSE 0
    IN  IF diff_pct > ExpensiveAbove * PnlOne THEN "EXPENSIVE"
        ELSE IF diff_pct < CheapBelow * PnlOne THEN "CHEAP"
        ELSE "FAIR"

PricingResult(price_hv, price_iv) ==
    [price_hv |-> price_hv, price_iv |-> price_iv,
     mispricing |-> price_iv - price_hv,
     mispricing_pct |-> mispricing_pct(price_hv, price_iv),
     valuation |-> _get_valuation(price_hv, price_iv)]

OptionPricer_calculate(p) ==
    PricingResult(_bs_call_price(p, p.sigma_hv), _bs_call_price(p, p.sigma_iv))

calculate_put(p) ==
    PricingResult(_bs_put_price(p, p.sigma_hv), _bs_put_price(p, p.sigma_iv))

get_d1(p) == _d1(p, p.sigma_iv)
get_d2(p) == _d2(p, p.sigma_iv)
get_price_iv(p) == _bs_call_price(p, p.sigma_iv)
get_put_price_iv(p) == _bs_put_price(p, p.sigma_iv)

(***************************************************************************)
(* greeks.py                                                               *)
(***************************************************************************)
\* option_type.lower()
Lower(t) == IF t \in {"put", "PUT", "Put"} THEN "put"
            ELSE IF t \in {"call", "CALL", "Call"} THEN "call"
            ELSE t

\* GreeksCalculator.__init__; get_d1() raises when _d1 does.
GreeksCalculator(p, option_type) ==
    [S |-> p.S, K |-> p.K, T |-> p.T, r |-> p.r, sigma |-> p.sigma_iv,
     d1 |-> get_d1(p), d2 |-> get_d2(p), option_type |-> Lower(option_type)]

\* fault: the put delta without its - 1
_delta_untyped(g) == norm_cdf(g.d1)

_delta(g) ==
    IF g.option_type = "put" THEN norm_cdf(g.d1) - ONE ELSE norm_cdf(g.d1)

_gamma(g) == Div(norm_pdf(g.d1), Mul(Mul(g.S, g.sigma), Sqrt(g.T)))

DaysPerYear == 365

\* fault: the put's second term enters with the call's sign
_theta_put_as_call(g) ==
    LET term1 == -Div(Mul(Mul(g.S, norm_pdf(g.d1)), g.sigma), 2 * Sqrt(g.T))
        term2 == IF g.option_type = "put"
                 THEN Mul(Mul(Mul(g.r, g.K), Exp(-Mul(g.r, g.T))), norm_cdf(-g.d2))
                 ELSE Mul(Mul(Mul(g.r, g.K), Exp(-Mul(g.r, g.T))), norm_cdf(g.d2))
        annual_theta == term1 - term2
    IN  IDiv(annual_theta, DaysPerYear)

_theta(g) ==
    LET term1 == -Div(Mul(Mul(g.S, norm_pdf(g.d1)), g.sigma), 2 * Sqrt(g.T))
        term2 == IF g.option_type = "put"
                 THEN Mul(Mul(Mul(-g.r, g.K), Exp(-Mul(g.r, g.T))), norm_cdf(-g.d2))
                 ELSE Mul(Mul(Mul(g.r, g.K), Exp(-Mul(g.r, g.T))), norm_cdf(g.d2))
        annual_theta == term1 - term2
    IN  IDiv(annual_theta, DaysPerYear)

_vega(g) ==
    LET raw_vega == Mul(Mul(g.S, Sqrt(g.T)), norm_pdf(g.d1))
    IN  IDiv(raw_vega, 100)

_rho(g) ==
    LET raw_rho == IF g.option_type = "put"
                   THEN Mul(Mul(Mul(-g.K, g.T), Exp(-Mul(g.r, g.T))), norm_cdf(-g.d2))
                   ELSE Mul(Mul(Mul(g.K, g.T), Exp(-Mul(g.r, g.T))), norm_cdf(g.d2))
    IN  IDiv(raw_rho, 100)

GreeksCalculator_calculate(g) ==
    LET delta == _delta(g)
        gamma == _gamma(g)
        theta == _theta(g)
        vega  == _vega(g)
        rho   == _rho(g)
    IN  [delta |-> delta, gamma |-> gamma, theta |-> theta,
         theta_daily |-> theta, theta_weekly |-> theta * 7,
         vega |-> vega, vega_dollar |-> vega * 100, rho |-> rho,
         shares_equiv |-> delta * 100]

(***************************************************************************)
(* scenarios.py                                                            *)
(***************************************************************************)
ScenarioEngine(p, market_price, num_contracts) ==
    [S |-> p.S, K |-> p.K, T |-> p.T, r |-> p.r, sigma |-> p.sigma_iv,
     market_price |-> market_price, num_contracts |-> num_contracts]

\* the scenario list of run()
Scenarios ==
    << [name |-> "Bull Rally",    stock_chg |-> 150000,  vol_chg |-> -50000,  days |-> 7],
       [name |-> "Moderate Up",   stock_chg |-> 50000,   vol_chg |-> 0,       days |-> 7],
       [name |-> "Flat",          stock_chg |-> 0,       vol_chg |-> 0,       days |-> 7],
       [name |-> "Moderate Down", stock_chg |-> -50000,  vol_chg |-> 50000,   days |-> 7],
       [name |-> "Crash",         stock_chg |-> -150000, vol_chg |-> 200000,  days |-> 7],
       [name |-> "Vol Spike",     stock_chg |-> 0,       vol_chg |-> 100000,  days |-> 7],
       [name |-> "Vol Crush",     stock_chg |-> 0,       vol_chg |-> -100000, days |-> 7] >>

\* the arguments (S, K, T, r, sigma) of one evaluation of a Black-Scholes formula
BsArgs(S, K, T, r, sigma) == [S |-> S, K |-> K, T |-> T, r |-> r, sigma |-> sigma]

\* _bs_call raises ZeroDivisionError when sigma * math.sqrt(T) is 0.0
BsCallRaises(a) == Mul(a.sigma, Sqrt(a.T)) = 0

\* fault: the copy of the formula has lost the 0.5 of the variance term
_bs_call_drifted(S, K, T, r, sigma) ==
    LET d1 == Div(Ln(Div(S, K)) + Mul(r + Mul(sigma, sigma), T),
                  Mul(sigma, Sqrt(T)))
        d2 == d1 - Mul(sigma, Sqrt(T))
    IN  Mul(S, norm_cdf(d1)) - Mul(Mul(K, Exp(-Mul(r, T))), norm_cdf(d2))

_bs_call(S, K, T, r, sigma) ==
    LET d1 == Div(Ln(Div(S, K)) + Mul(r + IDiv(Mul(sigma, sigma), 2), T),
                  Mul(sigma, Sqrt(T)))
        d2 == d1 - Mul(sigma, Sqrt(T))
    IN  Mul(S, norm_cdf(d1)) - Mul(Mul(K, Exp(-Mul(r, T))), norm_cdf(d2))

BsCallAt(a) == _bs_call(a.S, a.K, a.T, a.r, a.sigma)

SigmaFloor == 50000
ScenarioTFloor == 1000

\* fault: the days added to the time to expiry
ScenarioArgs_time_added(e, stock_change, vol_change, days) ==
    LET new_S     == Mul(e.S, ONE + stock_change)
        new_sigma == Max(e.sigma + vol_change, SigmaFloor)
        new_T     == Max(e.T + IDiv(days * ONE, DaysPerYear), ScenarioTFloor)
    IN  BsArgs(new_S, e.K, new_T, e.r, new_sigma)

\* fault: the shocked volatility without its floor
ScenarioArgs_unfloored(e, stock_change, vol_change, days) ==
    LET new_S     == Mul(e.S, ONE + stock_change)
        new_sigma == e.sigma + vol_change
        new_T     == Max(e.T - IDiv(days * ONE, DaysPerYear), ScenarioTFloor)
    IN  BsArgs(new_S, e.K, new_T, e.r, new_sigma)

\* the shocked inputs of _calculate_scenario_pnl
ScenarioArgs(e, stock_change, vol_change, days) ==
    LET new_S     == Mul(e.S, ONE + stock_change)
        new_sigma == Max(e.sigma + vol_change, SigmaFloor)
        new_T     == Max(e.T - IDiv(days * ONE, DaysPerYear), ScenarioTFloor)
    IN  BsArgs(new_S, e.K, new_T, e.r, new_sigma)

\* x * 100 as a P&L amount or a percentage (thousandths)
Times100(x) == IDiv(x, ONE \div (100 * PnlOne))

_calculate_scenario_pnl(e, stock_change, vol_change, days) ==
    LET new_price == BsCallAt(ScenarioArgs(e, stock_change, vol_change, days))
        pnl_per_contract == Times100(new_price - e.market_price)
    IN  pnl_per_contract * e.num_contracts

\* market_price * 100 * num_contracts, the divisor of pnl_pct
PositionCost(e) == Times100(e.market_price) * e.num_contracts

ScenarioResult(e, s) ==
    LET pnl == _calculate_scenario_pnl(e, s.stock_chg, s.vol_chg, s.days)
    IN  [name |-> s.name,
         stock_change |-> s.stock_chg * 100,
         vol_change |-> s.vol_chg * 100,
         pnl |-> pnl,
         pnl_pct |-> Times100(Div(pnl, PositionCost(e)))]

\* sorted(results, key=lambda x: x['pnl']): a stable sort, by insertion of
\* each element after the elements that are not greater.
RECURSIVE InsertByPnl(_, _)
InsertByPnl(sorted, x) ==
    IF sorted = << >> THEN << x >>
    ELSE IF sorted[Len(sorted)].pnl <= x.pnl THEN Append(sorted, x)
    ELSE Append(InsertByPnl(SubSeq(sorted, 1, Len(sorted) - 1), x), sorted[Len(sorted)])

RECURSIVE SortedByPnl(_)
SortedByPnl(results) ==
    IF results = << >> THEN << >>
    ELSE InsertByPnl(SortedByPnl(SubSeq(results, 1, Len(results) - 1)),
                     results[Len(results)])

ScenarioEngine_run(e) ==
    LET results == [i \in 1..Len(Scenarios) |-> ScenarioResult(e, Scenarios[i])]
        sorted_results == SortedByPnl(results)
    IN  [all |-> results,
         best |-> sorted_results[Len(sorted_results)],
         worst |-> sorted_results[1]]

VolPoints == 20
TimePoints == 30
DefaultDte == 30

\* fault: the multipliers run from 2.0 down to 0.5
VolMultiplier_descending(i) ==
    2 * ONE - DivAbs(MulAbs(ONE + ONE \div 2, i * ONE), (VolPoints - 1) * ONE)

\* vol_multipliers[i] = 0.5 + (1.5 * i / 19)
VolMultiplier(i) == ONE \div 2 + DivAbs(MulAbs(ONE + ONE \div 2, i * ONE), (VolPoints - 1) * ONE)

VolSweepArgs(e, i) == BsArgs(e.S, e.K, e.T, e.r, Mul(e.sigma, VolMultiplier(i)))

\* fault: a current_dte below 2 is kept
CurrentDte_no_default(e) == (e.T * DaysPerYear) \div ONE

\* current_dte = int(self.T * 365), 30 if that is below 2
CurrentDte(e) ==
    LET current_dte == (e.T * DaysPerYear) \div ONE
    IN  IF current_dte < 2 THEN DefaultDte ELSE current_dte

\* dte = max(1, current_dte - (current_dte - 1) * i / (time_points - 1))
SweepDte(current_dte, i) ==
    Max(ONE, current_dte * ONE - DivAbs((current_dte - 1) * i, TimePoints - 1))

TimeSweepArgs(e, i) ==
    BsArgs(e.S, e.K, IDiv(SweepDte(CurrentDte(e), i), DaysPerYear), e.r, e.sigma)

\* fault: the P&L of one contract
SweepPnl_per_contract(e, price) == Times100(price - e.market_price)

SweepPnl(e, price) == Times100(price - e.market_price) * e.num_contracts

generate_sensitivity_analysis(e) ==
    LET vol_sweep ==
            [k \in 1..VolPoints |->
                LET a == VolSweepArgs(e, k - 1)
                    price == BsCallAt(a)
                IN  [vol_pct |-> a.sigma * 100, vol_mult |-> VolMultiplier(k - 1),
                     price |-> price, pnl |-> SweepPnl(e, price)]]
        time_sweep ==
            [k \in 1..TimePoints |->
                LET price == BsCallAt(TimeSweepArgs(e, k - 1))
                IN  [dte |-> SweepDte(CurrentDte(e), k - 1),
                     price |-> price, pnl |-> SweepPnl(e, price)]]
    IN  [vol_sweep |-> vol_sweep, time_sweep |-> time_sweep,
         current_vol |-> e.sigma * 100, current_dte |-> CurrentDte(e)]

(***************************************************************************)
(* hedging.py                                                              *)
(***************************************************************************)
SharesPerContract == 100

HedgingAnalyzer(greeks, stock_price, num_contracts) ==
    [delta |-> greeks.delta, stock_price |-> stock_price,
     num_contracts |-> num_contracts, shares_per_contract |-> SharesPerContract]

\* fault: the hedge takes the sign of the exposure
HedgingAnalyzer_calculate_same_side(h) ==
    LET total_delta  == h.delta * h.num_contracts * h.shares_per_contract
        hedge_shares == total_delta
    IN  [delta_per_contract |-> h.delta,
         delta_exposure     |-> total_delta,
         shares             |-> hedge_shares,
         direction          |-> IF hedge_shares < 0 THEN "SHORT" ELSE "LONG",
         capital            |-> Mul(IDiv(Abs(hedge_shares), ONE \div PnlOne),
                                    h.stock_price)]

\* calculate(): shares in fixed point, capital in thousandths of a dollar
HedgingAnalyzer_calculate(h) ==
    LET total_delta  == h.delta * h.num_contracts * h.shares_per_contract
        hedge_shares == -total_delta
    IN  [delta_per_contract |-> h.delta,
         delta_exposure     |-> total_delta,
         shares             |-> hedge_shares,
         direction          |-> IF hedge_shares < 0 THEN "SHORT" ELSE "LONG",
         capital            |-> Mul(IDiv(Abs(hedge_shares), ONE \div PnlOne),
                                    h.stock_price)]

\* get_hedge_pnl(price_change_pct), in thousandths of a dollar
get_hedge_pnl(h, price_change_pct) ==
    LET new_price    == Mul(h.stock_price, ONE + price_change_pct)
        hedge_shares == -h.delta * h.num_contracts * h.shares_per_contract
        move         == new_price - h.stock_price
    IN  Sgn(hedge_shares) * Sgn(move)
        * Mul(IDiv(Abs(hedge_shares), ONE \div PnlOne), Abs(move))

(***************************************************************************)
(* data_loader.py, config.py                                               *)
(***************************************************************************)
TARGET_OTM_PCT == 10 * ONE
MIN_OTM_PCT == 5 * ONE
MAX_OTM_PCT == 20 * ONE
MIN_OPEN_INTEREST == 100
FallbackOpenInterest == 50

\* Python's None, and a test for it
None == [none |-> TRUE]
IsNone(x) == "none" \in DOMAIN x

\* the rows of otm with their pct_otm column
WithPctOtm(otm, current_price, side) ==
    [i \in 1..Len(otm) |->
        otm[i] @@ ("pct_otm" :> 100 * Div(side * (otm[i].strike - current_price),
                                          current_price))]

\* score of a row of the filtered set
Score(row) ==
    LET spread     == row.ask - row.bid
        spread_pct == 100 * Div(spread, row.lastPrice)
    IN  - (Abs(row.pct_otm - TARGET_OTM_PCT) * 2)
        + Mul(Ln((1 + row.openInterest) * ONE), ONE + ONE \div 2)
        - IDiv(spread_pct, 2)

\* fault: the last position of the maximum score
IdxMax_last(filtered) ==
    CHOOSE i \in 1..Len(filtered) :
        /\ \A j \in 1..Len(filtered) : Score(filtered[j]) <= Score(filtered[i])
        /\ \A j \in (i + 1)..Len(filtered) : Score(filtered[j]) < Score(filtered[i])

\* idxmax(): the first position of the maximum score
IdxMax(filtered) ==
    CHOOSE i \in 1..Len(filtered) :
        /\ \A j \in 1..Len(filtered) : Score(filtered[j]) <= Score(filtered[i])
        /\ \A j \in 1..(i - 1) : Score(filtered[j]) < Score(filtered[i])

\* fault: the strict filter without its lower bound
InBand_no_floor(row) ==
    /\ row.pct_otm <= MAX_OTM_PCT
    /\ row.openInterest > MIN_OPEN_INTEREST

InBand(row) ==
    /\ row.pct_otm >= MIN_OTM_PCT
    /\ row.pct_otm <= MAX_OTM_PCT
    /\ row.openInterest > MIN_OPEN_INTEREST

\* fault: the relaxed filter admits an open interest at its threshold
Liquid_inclusive(row) == row.openInterest >= FallbackOpenInterest

Liquid(row) == row.openInterest > FallbackOpenInterest

_filter_and_score(otm) ==
    LET strict   == SelectSeq(otm, InBand)
        filtered == IF strict = << >> THEN SelectSeq(otm, Liquid) ELSE strict
        best     == filtered[IdxMax(filtered)]
    IN  IF filtered = << >>
        THEN None
        ELSE [contract           |-> best.contractSymbol,
              strike             |-> best.strike,
              last_price         |-> best.lastPrice,
              bid                |-> best.bid,
              ask                |-> best.ask,
              mid_price          |-> IDiv(best.bid + best.ask, 2),
              open_interest      |-> best.openInterest,
              volume             |-> best.volume,
              implied_volatility |-> best.impliedVolatility,
              pct_otm            |-> best.pct_otm]

AboveSpot(chain, current_price) ==
    SelectSeq(chain, LAMBDA row : row.strike > current_price)

BelowSpot(chain, current_price) ==
    SelectSeq(chain, LAMBDA row : row.strike < current_price)

select_option(chain, current_price) ==
    _filter_and_score(WithPctOtm(AboveSpot(chain, current_price), current_price, 1))

select_put_option(chain, current_price) ==
    _filter_and_score(WithPctOtm(BelowSpot(chain, current_price), current_price, -1))

(***************************************************************************)
(* volatility.py.  A pandas column is a sequence of numbers, each either   *)
(* defined (Float) or NaN; stock_data is the record of its columns.        *)
(***************************************************************************)
NaN == [nan |-> TRUE, v |-> 0]
Float(v) == [nan |-> FALSE, v |-> v]

\* Series.dropna(): the defined values, in order
dropna(series) == SelectSeq(series, LAMBDA x : ~x.nan)

\* the values of a column without NaN, as plain numbers
Values(series) == [i \in 1..Len(series) |-> series[i].v]

RECURSIVE Sum(_)
Sum(xs) == IF xs = << >> THEN 0 ELSE Head(xs) + Sum(Tail(xs))

\* the sample standard deviation (ddof = 1) of a window of returns
SampleStd(xs) ==
    LET mean == IDiv(Sum(xs), Len(xs))
        sq   == [i \in 1..Len(xs) |-> Mul(xs[i] - mean, xs[i] - mean)]
    IN  Sqrt(IDiv(Sum(sq), Len(xs) - 1))

\* math.sqrt(252)
SQRT252 == 15874508

\* returns.rolling(window).std() * np.sqrt(252): NaN until the window is full
RollingVol(returns, window) ==
    [i \in 1..Len(returns) |->
        IF i < window
        THEN NaN
        ELSE Float(Mul(SampleStd(SubSeq(returns, i - window + 1, i)), SQRT252))]

\* VolatilityAnalyzer(stock_data)
VolatilityAnalyzer(stock_data) ==
    [returns |-> Values(dropna(stock_data.Log_Returns))]

Hv21Window == 21
Hv63Window == 63
Hv252Window == 252

\* series.iloc[-1] raises IndexError on an empty series
IlocLastRaises(series) == series = << >>
IlocLast(series) == series[Len(series)]

\* _calculate_historical_vol(), for a series that is not empty
_calculate_historical_vol(a) ==
    LET history == [hv_21d  |-> RollingVol(a.returns, Hv21Window),
                    hv_63d  |-> RollingVol(a.returns, Hv63Window),
                    hv_252d |-> RollingVol(a.returns, Hv252Window)]
    IN  [hv_21d  |-> IlocLast(history.hv_21d),
         hv_63d  |-> IlocLast(history.hv_63d),
         hv_252d |-> IlocLast(history.hv_252d),
         history |-> history]

HighAbove == 80
LowBelow == 20

\* fault: the comparison taken as <=
PercentileBelow_or_equal(all_hv, current_hv) ==
    IF all_hv = << >>
    THEN NaN
    ELSE LET below == { i \in 1..Len(all_hv) :
                            ~current_hv.nan /\ all_hv[i].v <= current_hv.v }
         IN  Float(100 * Div(Cardinality(below) * ONE, Len(all_hv) * ONE))

\* (all_hv < current_hv).mean() * 100: NaN for an empty series; a
\* comparison with NaN is false
PercentileBelow(all_hv, current_hv) ==
    IF all_hv = << >>
    THEN NaN
    ELSE LET below == { i \in 1..Len(all_hv) :
                            ~current_hv.nan /\ all_hv[i].v < current_hv.v }
         IN  Float(100 * Div(Cardinality(below) * ONE, Len(all_hv) * ONE))

\* fault: HIGH only above the 90th percentile
_determine_regime_high_90(a, current_hv) ==
    LET all_hv     == dropna(RollingVol(a.returns, Hv21Window))
        percentile == PercentileBelow(all_hv, current_hv)
        label      == IF ~percentile.nan /\ percentile.v > 90 * ONE THEN "HIGH"
                      ELSE IF ~percentile.nan /\ percentile.v < LowBelow * ONE THEN "LOW"
                      ELSE "NORMAL"
    IN  [label |-> label, percentile |-> percentile]

\* _determine_regime(current_hv); every comparison with a NaN percentile is
\* false, which leaves the label NORMAL
_determine_regime(a, current_hv) ==
    LET all_hv     == dropna(RollingVol(a.returns, Hv21Window))
        percentile == PercentileBelow(all_hv, current_hv)
        label      == IF ~percentile.nan /\ percentile.v > HighAbove * ONE THEN "HIGH"
                      ELSE IF ~percentile.nan /\ percentile.v < LowBelow * ONE THEN "LOW"
                      ELSE "NORMAL"
    IN  [label |-> label, percentile |-> percentile]

\* analyze(), for a series that is not empty
analyze(a) ==
    LET hv     == _calculate_historical_vol(a)
        regime == _determine_regime(a, hv.hv_21d)
    IN  [hv_21d     |-> hv.hv_21d,
         hv_63d     |-> hv.hv_63d,
         hv_252d    |-> hv.hv_252d,
         hv_history |-> hv.history,
         regime     |-> regime.label,
         percentile |-> regime.percentile,
         vrp        |-> None]

(***************************************************************************)
(* The objects and the calls made on them                                  *)
(***************************************************************************)
VARIABLES
    ctor,      \* the arguments OptionPricer was constructed with
    pricer,    \* the OptionPricer
    engine,    \* the ScenarioEngine built on it
    ret,       \* the outcome of the call in progress: a value or an exception
    bs_args,   \* the arguments of every Black-Scholes formula that call evaluated
    main,      \* run_analysis(): its position and its local variables
    data       \* the market data a VolatilityAnalyzer or a DataLoader is given

vars == <<ctor, pricer, engine, ret, bs_args, main, data>>

\* bound of the inputs: strikes 90, 110, ... in steps of 20
MaxStrikeStep == 3

NUM_CONTRACTS == 10

SpotSet   == {100 * ONE}
StrikeSet == {90 * ONE + i * 20 * ONE : i \in 0..MaxStrikeStep}
\* time to expiry in years: -10 days, 0, 35 days, one year
TimeArgSet == {-27397, 0, 95890, ONE}
RateSet   == {45000}
\* <<sigma_hv, sigma_iv>>
VolPairs  == { <<200000, 300000>>, <<280000, 300000>>, <<300000, 30000>>,
               <<200000, -200000>>, <<200000, 0>>, <<0, 300000>>,
               <<-200000, 300000>> }
MarketPriceSet == {500000, 3 * ONE}
ContractSet == {NUM_CONTRACTS}

NoRet == [op |-> "none", raised |-> "none", value |-> 0]
Returned(op, value) == [op |-> op, raised |-> "none", value |-> value]
Raised(op, exc) == [op |-> op, raised |-> exc, value |-> 0]

PricerArgs(p, sigma) == BsArgs(p.S, p.K, p.T, p.r, sigma)

\* a Log_Returns column of n returns after the undefined first one: the
\* returns alternate in sign, their size is base + slope * i, and the one
\* at shock_at (if any) is a move of 6%
LogReturns(n, base, slope, shock_at) ==
    << NaN >> \o
    [i \in 1..n |-> Float((IF i % 2 = 0 THEN 1 ELSE -1)
                            * (IF i = shock_at THEN 60000 ELSE base + slope * i))]

\* run_analysis() is not running
NotRunning == [pc |-> "idle"]

\* the constructor arguments drawn: the grid, and one contract under a
\* negative rate (12 days to expiry, in the money)
GridArgs ==
    { [S |-> S, K |-> K, T |-> T, r |-> r, sigma_hv |-> vol[1], sigma_iv |-> vol[2]] :
        S \in SpotSet, K \in StrikeSet, T \in TimeArgSet, r \in RateSet, vol \in VolPairs }

NegativeRateArgs ==
    { [S |-> 100 * ONE, K |-> 90 * ONE, T |-> 32877, r |-> -50000,
       sigma_hv |-> 280000, sigma_iv |-> 300000] }

Init ==
    \E a \in GridArgs \cup NegativeRateArgs, mp \in MarketPriceSet, n \in ContractSet :
        /\ ctor = a
        /\ pricer = OptionPricer(a.S, a.K, a.T, a.r, a.sigma_hv, a.sigma_iv)
        /\ engine = ScenarioEngine(pricer, mp, n)
        /\ ret = NoRet
        /\ bs_args = << >>
        /\ main = NotRunning
        /\ data = None

\* a call on pricer that prices at sigma_hv, then at sigma_iv
TwoPrices(op, value) ==
    /\ ret = NoRet
    /\ IF D1Raises(pricer, pricer.sigma_hv)
       THEN /\ ret' = Raised(op, "ZeroDivisionError")
            /\ bs_args' = << PricerArgs(pricer, pricer.sigma_hv) >>
       ELSE IF D1Raises(pricer, pricer.sigma_iv)
       THEN /\ ret' = Raised(op, "ZeroDivisionError")
            /\ bs_args' = << PricerArgs(pricer, pricer.sigma_hv),
                             PricerArgs(pricer, pricer.sigma_iv) >>
       ELSE /\ ret' = Returned(op, value)
            /\ bs_args' = << PricerArgs(pricer, pricer.sigma_hv),
                             PricerArgs(pricer, pricer.sigma_iv) >>
    /\ UNCHANGED <<ctor, pricer, engine, main, data>>

\* pricer.calculate()
Calculate == TwoPrices("calculate", OptionPricer_calculate(pricer))

\* pricer.calculate_put()
CalculatePut == TwoPrices("calculate_put", calculate_put(pricer))

\* a call on pricer that evaluates the formula at sigma_iv only
AtIv(op, value) ==
    /\ ret = NoRet
    /\ ret' = IF D1Raises(pricer, pricer.sigma_iv)
              THEN Raised(op, "ZeroDivisionError")
              ELSE Returned(op, value)
    /\ bs_args' = << PricerArgs(pricer, pricer.sigma_iv) >>
    /\ UNCHANGED <<ctor, pricer, engine, main, data>>

GetD1 == AtIv("get_d1", get_d1(pricer))
GetPriceIv == AtIv("get_price_iv", get_price_iv(pricer))
GetPutPriceIv == AtIv("get_put_price_iv", get_put_price_iv(pricer))

\* GreeksCalculator(pricer, option_type).calculate()
Greeks(option_type) ==
    AtIv("greeks_" \o Lower(option_type),
         GreeksCalculator_calculate(GreeksCalculator(pricer, option_type)))

GreeksCalculate == \E option_type \in {"call", "put", "PUT"} : Greeks(option_type)

\* position sizes a hedge is computed for
HedgeContractSet == {1, NUM_CONTRACTS}

\* HedgingAnalyzer(greeks, S, num_contracts).calculate() on the Greeks of
\* GreeksCalculator(pricer, option_type)
Hedge(option_type, num_contracts) ==
    LET greeks == GreeksCalculator_calculate(GreeksCalculator(pricer, option_type))
        hedger == HedgingAnalyzer(greeks, pricer.S, num_contracts)
    IN  AtIv("hedge_" \o option_type,
             [hedger |-> hedger, hedge |-> HedgingAnalyzer_calculate(hedger)])

HedgingCalculate ==
    \E option_type \in {"call", "put"}, num_contracts \in HedgeContractSet :
        Hedge(option_type, num_contracts)

\* price moves a hedge is valued for: -5% and +10%
PriceChangeSet == {-50000, 100000}

\* HedgingAnalyzer(greeks, S, num_contracts).get_hedge_pnl(price_change_pct)
HedgePnl(option_type, num_contracts, price_change_pct) ==
    LET greeks == GreeksCalculator_calculate(GreeksCalculator(pricer, option_type))
        hedger == HedgingAnalyzer(greeks, pricer.S, num_contracts)
    IN  AtIv("hedge_pnl_" \o option_type,
             [hedger |-> hedger, price_change_pct |-> price_change_pct,
              pnl |-> get_hedge_pnl(hedger, price_change_pct)])

GetHedgePnl ==
    \E option_type \in {"call", "put"}, num_contracts \in HedgeContractSet,
       price_change_pct \in PriceChangeSet :
        HedgePnl(option_type, num_contracts, price_change_pct)

\* the arguments of the Black-Scholes evaluations of run(), in order
RunArgs(e) ==
    [i \in 1..Len(Scenarios) |->
        ScenarioArgs(e, Scenarios[i].stock_chg, Scenarios[i].vol_chg, Scenarios[i].days)]

\* the evaluations of a sequence up to the first one that raises
RECURSIVE UpToRaise(_)
UpToRaise(seq) ==
    IF seq = << >> THEN << >>
    ELSE IF BsCallRaises(Head(seq)) THEN << Head(seq) >>
    ELSE << Head(seq) >> \o UpToRaise(Tail(seq))

SomeRaises(seq) == \E i \in 1..Len(seq) : BsCallRaises(seq[i])

\* <<stock_change, vol_change, days>>: no shock at all, a week of decay, a
\* rally with falling volatility
ShockSet == { <<0, 0, 0>>, <<0, 0, 7>>, <<150000, -50000, 7>> }

\* scenario_engine._calculate_scenario_pnl(stock_change, vol_change, days)
CalculateScenarioPnl ==
    \E shock \in ShockSet :
        LET args == << ScenarioArgs(engine, shock[1], shock[2], shock[3]) >>
        IN  /\ ret = NoRet
            /\ ret' = IF SomeRaises(args)
                      THEN Raised("_calculate_scenario_pnl", "ZeroDivisionError")
                      ELSE Returned("_calculate_scenario_pnl",
                                    [shock |-> shock,
                                     pnl |-> _calculate_scenario_pnl(
                                                 engine, shock[1], shock[2], shock[3])])
            /\ bs_args' = args
            /\ UNCHANGED <<ctor, pricer, engine, main, data>>

\* scenario_engine.run()
Run ==
    /\ ret = NoRet
    /\ ret' = IF SomeRaises(RunArgs(engine)) \/ PositionCost(engine) = 0
              THEN Raised("run", "ZeroDivisionError")
              ELSE Returned("run", ScenarioEngine_run(engine))
    /\ bs_args' = UpToRaise(RunArgs(engine))
    /\ UNCHANGED <<ctor, pricer, engine, main, data>>

SensitivityArgs(e) ==
    [i \in 1..VolPoints |-> VolSweepArgs(e, i - 1)] \o
    [i \in 1..TimePoints |-> TimeSweepArgs(e, i - 1)]

\* fault: the time sweep leaves its last test_T in self.T
Sensitivity_stores_time ==
    /\ ret = NoRet
    /\ ret' = IF SomeRaises(SensitivityArgs(engine))
              THEN Raised("generate_sensitivity_analysis", "ZeroDivisionError")
              ELSE Returned("generate_sensitivity_analysis",
                            generate_sensitivity_analysis(engine))
    /\ bs_args' = UpToRaise(SensitivityArgs(engine))
    /\ engine' = [engine EXCEPT !.T = IDiv(ONE, DaysPerYear)]
    /\ UNCHANGED <<ctor, pricer, main, data>>

\* scenario_engine.generate_sensitivity_analysis()
Sensitivity ==
    /\ ret = NoRet
    /\ ret' = IF SomeRaises(SensitivityArgs(engine))
              THEN Raised("generate_sensitivity_analysis", "ZeroDivisionError")
              ELSE Returned("generate_sensitivity_analysis",
                            generate_sensitivity_analysis(engine))
    /\ bs_args' = UpToRaise(SensitivityArgs(engine))
    /\ UNCHANGED <<ctor, pricer, engine, main, data>>

\* the caller takes the outcome; the objects are ready for the next call
Return ==
    /\ ret # NoRet
    /\ ret' = NoRet
    /\ bs_args' = << >>
    /\ UNCHANGED <<ctor, pricer, engine, main, data>>

Next ==
    \/ Calculate
    \/ CalculatePut
    \/ GetD1
    \/ GetPriceIv
    \/ GetPutPriceIv
    \/ GreeksCalculate
    \/ HedgingCalculate
    \/ GetHedgePnl
    \/ CalculateScenarioPnl
    \/ Run
    \/ Sensitivity
    \/ Return

Spec == Init /\ [][Next]_vars

(***************************************************************************)
(* main.py: run_analysis(), one action per step of the pipeline.  Its      *)
(* numbers come from pandas (numpy.float64): there a division by zero or   *)
(* an operation on NaN yields inf or nan and raises nothing.               *)
(***************************************************************************)
\* a result some of whose numbers are inf or nan
NonFinite == [nonfinite |-> TRUE]

\* d1 at this volatility is a finite number
FiniteAt(sigma) == ~sigma.nan /\ sigma.v # 0

\* the pricer with its volatilities as plain numbers
Plain(p) == [p EXCEPT !.sigma_hv = p.sigma_hv.v, !.sigma_iv = p.sigma_iv.v]

ChainRow(symbol, strike, open_interest, implied_volatility) ==
    [contractSymbol |-> symbol, strike |-> strike * ONE, lastPrice |-> 3 * ONE,
     bid |-> 2900000, ask |-> 3100000, openInterest |-> open_interest,
     volume |-> 10, impliedVolatility |-> implied_volatility]

\* call chains: none in the band, one in the band, one with a zero implied
\* volatility, one close to the money and thinly traded
CallChains ==
    { << >>,
      << ChainRow("C110", 110, 500, 300000) >>,
      << ChainRow("C110", 110, 500, 0) >>,
      << ChainRow("C103", 103, 80, 250000), ChainRow("C110", 110, 500, 300000) >>,
      << ChainRow("C103", 103, 80, 250000) >>,
      << ChainRow("C110", 110, 20, 300000) >> }

PutChains ==
    { << >>,
      << ChainRow("P90", 90, 500, 350000) >>,
      << ChainRow("P90", 90, 500, 0) >>,
      << ChainRow("P95", 95, 20, 350000) >> }

\* price histories: too short for a 21-day window, a year of prices, a year
\* of constant prices
StockDataSet ==
    { [Log_Returns |-> LogReturns(10, 20000, 0, 0)],
      [Log_Returns |-> LogReturns(30, 15000, 200, 0)],
      [Log_Returns |-> LogReturns(30, 0, 0, 0)] }

DteSet == {-10, 0, 35}

\* the data directory: the files missing, or their contents
DataFiles ==
    { [present |-> FALSE] } \cup
    { [present |-> TRUE, stock_data |-> sd, option_chain |-> oc, put_chain |-> pc,
       metadata |-> [current_price |-> 100 * ONE, dte |-> dte,
                     risk_free_rate |-> 45000]] :
        sd \in StockDataSet, oc \in CallChains, pc \in PutChains, dte \in DteSet }

PipelineInit ==
    \E files \in DataFiles :
        /\ main = [pc |-> "load", files |-> files, raised |-> "none",
                   exit_status |-> -1,
                   stock_data |-> None, option_chain |-> None, put_chain |-> None,
                   metadata |-> None, selected |-> None, vol_metrics |-> None,
                   pricer |-> None, pricing |-> None, greeks |-> None,
                   hedge |-> None, scenario_engine |-> None, scenarios |-> None,
                   sensitivity_data |-> None, put_selected |-> None,
                   put_pricer |-> None, put_pricing |-> None, put_greeks |-> None,
                   put_data_chart |-> None, charts |-> {}, report |-> FALSE]
        /\ ctor = None
        /\ pricer = None
        /\ engine = None
        /\ ret = NoRet
        /\ bs_args = << >>
        /\ data = None

\* an exception leaves run_analysis(); __main__ prints it and exits with 1
Raise(exc) == [main EXCEPT !.pc = "exit", !.raised = exc, !.exit_status = 1]

Idle == UNCHANGED <<ctor, pricer, engine, ret, bs_args, data>>

\* fault: a missing file ends the run quietly with status 0
LoadData_swallowed ==
    /\ main.pc = "load"
    /\ main' = IF ~main.files.present
               THEN [main EXCEPT !.pc = "exit", !.exit_status = 0]
               ELSE [main EXCEPT !.pc = "select",
                                 !.stock_data = main.files.stock_data,
                                 !.option_chain = main.files.option_chain,
                                 !.put_chain = main.files.put_chain,
                                 !.metadata = main.files.metadata]
    /\ Idle

\* Step 1: loader.load_all()
LoadData ==
    /\ main.pc = "load"
    /\ main' = IF ~main.files.present
               THEN Raise("FileNotFoundError")
               ELSE [main EXCEPT !.pc = "select",
                                 !.stock_data = main.files.stock_data,
                                 !.option_chain = main.files.option_chain,
                                 !.put_chain = main.files.put_chain,
                                 !.metadata = main.files.metadata]
    /\ Idle

\* Step 2: select_option(), then selected['strike'] is printed
OptionSelection ==
    /\ main.pc = "select"
    /\ LET selected == select_option(main.option_chain, main.metadata.current_price)
       IN  main' = IF IsNone(selected)
                   THEN [Raise("TypeError") EXCEPT !.selected = selected]
                   ELSE [main EXCEPT !.pc = "volatility", !.selected = selected]
    /\ Idle

\* Step 3: vol_analyzer.analyze()
VolatilityAnalysis ==
    /\ main.pc = "volatility"
    /\ main' = [main EXCEPT !.pc = "pricing",
                            !.vol_metrics = analyze(VolatilityAnalyzer(main.stock_data))]
    /\ Idle

\* OptionPricer(S, K, T=dte/365, r, sigma_hv=hv_21d, sigma_iv=implied_volatility)
PipelinePricer(m, selected) ==
    OptionPricer(m.metadata.current_price, selected.strike,
                 IDiv(m.metadata.dte * ONE, DaysPerYear),
                 m.metadata.risk_free_rate,
                 m.vol_metrics.hv_21d,
                 Float(selected.implied_volatility))

\* Step 4: the call pricer and pricer.calculate()
BlackScholesPricing ==
    /\ main.pc = "pricing"
    /\ LET p == PipelinePricer(main, main.selected)
       IN  main' = [main EXCEPT
                      !.pc = "greeks",
                      !.pricer = p,
                      !.pricing = IF FiniteAt(p.sigma_hv) /\ FiniteAt(p.sigma_iv)
                                  THEN OptionPricer_calculate(Plain(p))
                                  ELSE NonFinite]
    /\ Idle

PipelineGreeks(p, option_type) ==
    IF FiniteAt(p.sigma_iv)
    THEN GreeksCalculator_calculate(GreeksCalculator(Plain(p), option_type))
    ELSE NonFinite

\* Step 5: GreeksCalculator(pricer).calculate()
GreeksAnalysis ==
    /\ main.pc = "greeks"
    /\ main' = [main EXCEPT !.pc = "hedging",
                            !.greeks = PipelineGreeks(main.pricer, "call")]
    /\ Idle

\* Step 6: HedgingAnalyzer(greeks, current_price, NUM_CONTRACTS).calculate()
HedgingStrategy ==
    /\ main.pc = "hedging"
    /\ main' = [main EXCEPT
                  !.pc = "scenarios",
                  !.hedge = IF main.greeks = NonFinite
                            THEN NonFinite
                            ELSE HedgingAnalyzer_calculate(
                                     HedgingAnalyzer(main.greeks,
                                                     main.metadata.current_price,
                                                     NUM_CONTRACTS))]
    /\ Idle

\* Step 7: ScenarioEngine(pricer, mid_price, NUM_CONTRACTS).run(); the
\* scenarios floor the volatility, so a zero one is repriced at 0.05
ScenarioAnalysis ==
    /\ main.pc = "scenarios"
    /\ LET e == ScenarioEngine(Plain(main.pricer), main.selected.mid_price,
                               NUM_CONTRACTS)
       IN  main' = [main EXCEPT !.pc = "sensitivity",
                                !.scenario_engine = e,
                                !.scenarios = ScenarioEngine_run(e)]
    /\ Idle

\* Feature 1: scenario_engine.generate_sensitivity_analysis()
SensitivityAnalysis ==
    /\ main.pc = "sensitivity"
    /\ main' = [main EXCEPT
                  !.pc = "put",
                  !.sensitivity_data =
                      IF FiniteAt(main.pricer.sigma_iv)
                      THEN generate_sensitivity_analysis(main.scenario_engine)
                      ELSE NonFinite]
    /\ Idle

\* Feature 2: select_put_option(); the put is priced if one was selected
PutOptionAnalysis ==
    /\ main.pc = "put"
    /\ LET put_selected ==
               select_put_option(main.put_chain, main.metadata.current_price)
           p == PipelinePricer(main, put_selected)
       IN  main' = IF IsNone(put_selected)
                   THEN [main EXCEPT !.pc = "charts", !.put_selected = put_selected]
                   ELSE [main EXCEPT
                           !.pc = "charts",
                           !.put_selected = put_selected,
                           !.put_pricer = p,
                           !.put_pricing =
                               IF FiniteAt(p.sigma_hv) /\ FiniteAt(p.sigma_iv)
                               THEN calculate_put(Plain(p))
                               ELSE NonFinite,
                           !.put_greeks = PipelineGreeks(p, "put"),
                           !.put_data_chart = [market_price |-> put_selected.mid_price]]
    /\ Idle

\* fault: the comparison chart is plotted whether or not a put was priced
GenerateCharts_unguarded ==
    /\ main.pc = "charts"
    /\ main' = [main EXCEPT
                  !.pc = "report",
                  !.charts = {"all", "sensitivity_analysis", "call_put_comparison"}]
    /\ Idle

\* Step 8: generate_all(), the sensitivity chart and, if a put was priced,
\* the call/put comparison chart
GenerateCharts ==
    /\ main.pc = "charts"
    /\ main' = [main EXCEPT
                  !.pc = "report",
                  !.charts = {"all", "sensitivity_analysis"} \cup
                             (IF IsNone(main.put_data_chart)
                              THEN {}
                              ELSE {"call_put_comparison"})]
    /\ Idle

\* Step 9: report_gen.generate(), then return True: sys.exit(0)
GenerateReport ==
    /\ main.pc = "report"
    /\ main' = [main EXCEPT !.pc = "exit", !.report = TRUE, !.exit_status = 0]
    /\ Idle

PipelineNext ==
    \/ LoadData
    \/ OptionSelection
    \/ VolatilityAnalysis
    \/ BlackScholesPricing
    \/ GreeksAnalysis
    \/ HedgingStrategy
    \/ ScenarioAnalysis
    \/ SensitivityAnalysis
    \/ PutOptionAnalysis
    \/ GenerateCharts
    \/ GenerateReport

PipelineSpec == PipelineInit /\ [][PipelineNext]_vars

\* run_analysis() is straight-line code: once the put step is done, chart
\* generation and then report generation are executed
FairPipelineSpec ==
    PipelineSpec /\ WF_vars(GenerateCharts) /\ WF_vars(GenerateReport)

(***************************************************************************)
(* VolatilityAnalyzer and DataLoader on their own: the calls made on them  *)
(* for a price history and an option chain.                                *)
(***************************************************************************)
\* bounds of the inputs: the longest price history, the longest chain
MaxReturns == 30
MaxChainLen == 3

\* histories: none, shorter than the window, just the window, longer; with
\* volatility rising, with a shock early in the history, falling, constant
ReturnSeriesSet ==
    { LogReturns(n, 15000, 200, shock_at) :
        n \in {0, 10, 20, 21, 25, 26, MaxReturns}, shock_at \in {0, 3, 4, 8} }
    \cup { LogReturns(n, 25000, -200, 0) : n \in {26, MaxReturns} }
    \cup { LogReturns(n, 0, 0, 0) : n \in {25, MaxReturns} }

QuoteRow(symbol, strike, open_interest, bid, ask) ==
    [contractSymbol |-> symbol, strike |-> strike * ONE, lastPrice |-> 3 * ONE,
     bid |-> bid, ask |-> ask, openInterest |-> open_interest,
     volume |-> 10, impliedVolatility |-> 300000]

\* quotes at spot 100: close to the money and liquid, on the edges of the
\* band, two at the same distance from the target, thinly traded ones, puts
QuoteRows ==
    { QuoteRow("C103", 103, 2000, 2990000, 3010000),
      QuoteRow("C105", 105, 101, 2800000, 3200000),
      QuoteRow("C108", 108, 500, 2900000, 3100000),
      QuoteRow("C112", 112, 500, 2900000, 3100000),
      QuoteRow("C120", 120, 100, 2900000, 3100000),
      QuoteRow("C130", 130, 50, 2900000, 3100000),
      QuoteRow("P90", 90, 500, 2900000, 3100000),
      QuoteRow("P97", 97, 51, 2900000, 3100000) }

\* the chains: every sequence of at most MaxChainLen different quotes
ChainSet ==
    { chain \in UNION { [1..n -> QuoteRows] : n \in 0..MaxChainLen } :
        \A i, j \in 1..Len(chain) : i # j => chain[i] # chain[j] }

DataInit ==
    /\ \/ \E series \in ReturnSeriesSet :
              data = [stock_data |-> [Log_Returns |-> series], chain |-> << >>,
                      current_price |-> 100 * ONE]
       \/ \E chain \in ChainSet :
              data = [stock_data |-> [Log_Returns |-> LogReturns(21, 15000, 200, 0)],
                      chain |-> chain, current_price |-> 100 * ONE]
    /\ ctor = None
    /\ pricer = None
    /\ engine = None
    /\ ret = NoRet
    /\ bs_args = << >>
    /\ main = NotRunning

DataIdle == UNCHANGED <<ctor, pricer, engine, bs_args, main, data>>

\* VolatilityAnalyzer(stock_data).analyze()
Analyze ==
    /\ ret = NoRet
    /\ LET a == VolatilityAnalyzer(data.stock_data)
       IN  ret' = IF IlocLastRaises(a.returns)
                  THEN Raised("analyze", "IndexError")
                  ELSE Returned("analyze", analyze(a))
    /\ DataIdle

\* loader.select_option(chain, current_price)
SelectOption ==
    /\ ret = NoRet
    /\ ret' = Returned("select_option", select_option(data.chain, data.current_price))
    /\ DataIdle

\* loader.select_put_option(chain, current_price)
SelectPutOption ==
    /\ ret = NoRet
    /\ ret' = Returned("select_put_option",
                       select_put_option(data.chain, data.current_price))
    /\ DataIdle

DataReturn ==
    /\ ret # NoRet
    /\ ret' = NoRet
    /\ DataIdle

DataNext ==
    \/ Analyze
    \/ SelectOption
    \/ SelectPutOption
    \/ DataReturn

DataSpec == DataInit /\ [][DataNext]_vars

(***************************************************************************)
(* Properties                                                              *)
(***************************************************************************)
ReturnedFrom(op) == ret.op = op /\ ret.raised = "none"

\* C1: calculate() and calculate_put() return mispricing_pct =
\* (price_iv - price_hv) / price_hv * 100 when price_hv > 0 and 0 otherwise,
\* on the call prices and on the put prices respectively, and the label is
\* EXPENSIVE exactly above 20, CHEAP exactly below -20, FAIR otherwise.
C1_Valuation ==
    (ret.op \in {"calculate", "calculate_put"} /\ ret.raised = "none") =>
        LET v == ret.value
        IN  /\ v.price_hv = IF ret.op = "calculate"
                            THEN _bs_call_price(pricer, pricer.sigma_hv)
                            ELSE _bs_put_price(pricer, pricer.sigma_hv)
            /\ v.price_iv = IF ret.op = "calculate"
                            THEN _bs_call_price(pricer, pricer.sigma_iv)
                            ELSE _bs_put_price(pricer, pricer.sigma_iv)
            /\ v.mispricing_pct =
                   IF v.price_hv > 0
                   THEN PctOf(v.price_iv - v.price_hv, v.price_hv)
                   ELSE 0
            /\ (v.valuation = "EXPENSIVE") <=> (v.mispricing_pct > 20 * PnlOne)
            /\ (v.valuation = "CHEAP") <=> (v.mispricing_pct < -20 * PnlOne)
            /\ (v.valuation = "FAIR") <=>
                   (v.mispricing_pct >= -20 * PnlOne /\ v.mispricing_pct <= 20 * PnlOne)
            /\ (v.price_hv <= 0) => (v.mispricing_pct = 0 /\ v.valuation = "FAIR")

C1_Witness ==
    /\ ReturnedFrom("calculate_put")
    /\ ret.value.price_hv > 0
    /\ ret.value.valuation = "CHEAP"

\* rounding allowance of a price: one unit of norm_cdf for every dollar of
\* spot and strike, and the roundings of the products
PriceTol(p) == (p.S + p.K) \div ONE + 4

ParityGap(p, call_price, put_price) ==
    Abs(call_price - put_price - (p.S - DiscountedStrike(p.K, p.r, p.T)))

\* C2: put-call parity: for one pricer and any sigma > 0 the call price minus
\* the put price is S - K * exp(-r * T), up to rounding; so for
\* get_price_iv() and get_put_price_iv().
C2_PutCallParity ==
    /\ (ReturnedFrom("get_put_price_iv") /\ pricer.sigma_iv > 0) =>
           ParityGap(pricer, get_price_iv(pricer), ret.value) <= PriceTol(pricer)
    /\ (ReturnedFrom("get_price_iv") /\ pricer.sigma_iv > 0) =>
           ParityGap(pricer, ret.value, get_put_price_iv(pricer)) <= PriceTol(pricer)
    /\ (ReturnedFrom("calculate_put") /\ pricer.sigma_hv > 0) =>
           ParityGap(pricer, _bs_call_price(pricer, pricer.sigma_hv),
                     ret.value.price_hv) <= PriceTol(pricer)

C2_Witness ==
    /\ ReturnedFrom("get_put_price_iv")
    /\ pricer.sigma_iv > 0
    /\ ret.value > ONE
    /\ get_price_iv(pricer) > ONE

\* C3: the call and the put GreeksCalculator of one pricer give
\* call delta = put delta + 1, call delta in [0, 1], put delta in [-1, 0],
\* and the same gamma and the same vega.
C3_DeltaParityGammaVega ==
    (ret.op \in {"greeks_call", "greeks_put"} /\ ret.raised = "none") =>
        LET c == IF ret.op = "greeks_call" THEN ret.value
                 ELSE GreeksCalculator_calculate(GreeksCalculator(pricer, "call"))
            p == IF ret.op = "greeks_put" THEN ret.value
                 ELSE GreeksCalculator_calculate(GreeksCalculator(pricer, "put"))
        IN  /\ c.delta = p.delta + ONE
            /\ c.delta >= 0 /\ c.delta <= ONE
            /\ p.delta >= -ONE /\ p.delta <= 0
            /\ c.gamma = p.gamma
            /\ c.vega = p.vega

C3_Witness ==
    /\ ReturnedFrom("greeks_put")
    /\ ret.value.delta < 0 /\ ret.value.delta > -ONE
    /\ ret.value.gamma > 0
    /\ ret.value.vega > 0

CallGreeks(p) == GreeksCalculator_calculate(GreeksCalculator(p, "call"))

\* the sweep of a returned sensitivity analysis never drops by more than tol
\* from one point to the next
VolSweepRises(sweep, price_tol, pnl_tol) ==
    \A i \in 1..(Len(sweep) - 1) :
        /\ sweep[i + 1].price >= sweep[i].price - price_tol
        /\ sweep[i + 1].pnl >= sweep[i].pnl - pnl_tol

PricesRise(p, v, tol) ==
    /\ (0 < p.sigma_hv /\ p.sigma_hv <= p.sigma_iv) => v.price_iv >= v.price_hv - tol
    /\ (0 < p.sigma_iv /\ p.sigma_iv <= p.sigma_hv) => v.price_hv >= v.price_iv - tol

\* rounding allowance of a P&L: that of two prices, times 100 and the position
PnlTol(e, p) == (Times100(2 * PriceTol(p)) + 1) * e.num_contracts

C6_InvalidVolatilityRaises ==
    /\ pricer.sigma_hv = ctor.sigma_hv /\ pricer.sigma_iv = ctor.sigma_iv
    /\ (ret.op = "get_d1" /\ pricer.sigma_iv <= 0) => ret.raised # "none"
    /\ (ret.op = "calculate" /\ (pricer.sigma_hv <= 0 \/ pricer.sigma_iv <= 0)) =>
           ret.raised # "none"

\* the scenarios as the specification lists them: name, stock change,
\* volatility change
C8_Listed ==
    << <<"Bull Rally", 150000, -50000>>, <<"Moderate Up", 50000, 0>>,
       <<"Flat", 0, 0>>, <<"Moderate Down", -50000, 50000>>,
       <<"Crash", -150000, 200000>>, <<"Vol Spike", 0, 100000>>,
       <<"Vol Crush", 0, -100000>> >>

\* C8: run() evaluates the 7 listed scenarios in order, each repriced as a
\* call at S * (1 + stock_chg), max(sigma + vol_chg, 0.05) and the floored
\* time, with pnl = (new_price - market_price) * 100 * num_contracts and
\* pnl_pct = pnl / (market_price * 100 * num_contracts) * 100; no volatility
\* used is below 0.05.
C8_ScenarioRepricing ==
    ReturnedFrom("run") =>
        /\ Len(ret.value.all) = 7
        /\ Len(bs_args) = 7
        /\ \A i \in 1..7 :
            LET a == bs_args[i]
                row == ret.value.all[i]
                shocked == OptionPricer(a.S, a.K, a.T, a.r, a.sigma, a.sigma)
            IN  /\ row.name = C8_Listed[i][1]
                /\ a.S = Mul(engine.S, ONE + C8_Listed[i][2])
                /\ a.sigma = (IF engine.sigma + C8_Listed[i][3] >= 50000
                              THEN engine.sigma + C8_Listed[i][3] ELSE 50000)
                /\ a.sigma >= 50000
                /\ a.T = (IF engine.T - 19178 >= 1000 THEN engine.T - 19178 ELSE 1000)
                /\ a.K = engine.K /\ a.r = engine.r
                /\ row.pnl = Times100(_bs_call_price(shocked, a.sigma) - engine.market_price)
                                 * engine.num_contracts
                /\ row.pnl_pct = Times100(Div(row.pnl,
                                     Times100(engine.market_price) * engine.num_contracts))

C8_Witness ==
    /\ ReturnedFrom("run")
    /\ engine.sigma = 30000
    /\ bs_args[3].sigma = 50000
    /\ ret.value.all[1].pnl > 0
    /\ ret.value.all[5].pnl < 0

\* the first position of seq whose pnl is v
RECURSIVE FirstWithPnl(_, _, _)
FirstWithPnl(seq, v, i) ==
    IF i > Len(seq) THEN 0
    ELSE IF seq[i].pnl = v THEN i
    ELSE FirstWithPnl(seq, v, i + 1)

\* C9: best is a scenario of maximum pnl, worst one of minimum pnl, and of
\* several scenarios tied on that pnl the first of the list is returned.
C9_FirstOfTies ==
    ReturnedFrom("run") =>
        LET all == ret.value.all
            best == ret.value.best
            worst == ret.value.worst
        IN  /\ \A i \in 1..Len(all) : all[i].pnl <= best.pnl /\ all[i].pnl >= worst.pnl
            /\ best = all[FirstWithPnl(all, best.pnl, 1)]
            /\ worst = all[FirstWithPnl(all, worst.pnl, 1)]

\* the price of the Flat scenario of a returned run()
FlatPrice == BsCallAt(bs_args[3])

\* C10 as stated: when the call theta is negative, the Flat scenario reprices
\* at or below get_price_iv() and its pnl is not positive (rounding allowed
\* for).
C10_Original ==
    (ReturnedFrom("run") /\ ~D1Raises(pricer, pricer.sigma_iv)
                         /\ CallGreeks(pricer).theta < 0) =>
        /\ FlatPrice <= get_price_iv(pricer) + 2 * PriceTol(pricer)
        /\ ret.value.all[3].pnl <= PnlTol(engine, pricer)

\* C10 (amended): when the call theta is negative, sigma_iv is at least the
\* scenario floor 0.05 and the rate is not negative, the Flat scenario
\* reprices at or below get_price_iv(); its pnl, which is taken against the
\* market price, is not positive when the market price is at least
\* get_price_iv() (both up to rounding).
C10_FlatDecay ==
    (ReturnedFrom("run") /\ pricer.sigma_iv >= 50000 /\ pricer.r >= 0
                         /\ CallGreeks(pricer).theta < 0) =>
        /\ FlatPrice <= get_price_iv(pricer) + 2 * PriceTol(pricer)
        /\ (engine.market_price >= get_price_iv(pricer) /\ engine.num_contracts > 0) =>
               ret.value.all[3].pnl <= PnlTol(engine, pricer)

C10_Witness ==
    /\ ReturnedFrom("run")
    /\ pricer.sigma_iv >= 50000 /\ pricer.r >= 0
    /\ CallGreeks(pricer).theta < 0
    /\ engine.market_price >= get_price_iv(pricer)
    /\ FlatPrice < get_price_iv(pricer) - 100000
    /\ ret.value.all[3].pnl < 0

\* a volatility the pricer can use: defined and positive
ValidVolatility(sigma) == ~sigma.nan /\ sigma.v > 0

\* C7: run_analysis never constructs an OptionPricer, for the call or for
\* the put, with a zero, negative or undefined sigma_hv or sigma_iv.
C7_VolatilityRejected ==
    /\ ~IsNone(main.pricer) =>
           ValidVolatility(main.pricer.sigma_hv) /\ ValidVolatility(main.pricer.sigma_iv)
    /\ ~IsNone(main.put_pricer) =>
           ValidVolatility(main.put_pricer.sigma_hv)
               /\ ValidVolatility(main.put_pricer.sigma_iv)

HedgeReturned == ReturnedFrom("hedge_call") \/ ReturnedFrom("hedge_put")

\* C11: the hedge of a position with delta > 0 is SHORT, of one with
\* delta < 0 LONG, for any positive number of contracts;
\* delta_exposure = delta * contracts * 100 and the hedge is its negation.
C11_HedgeDirection ==
    HedgeReturned =>
        LET h == ret.value.hedger
            hedge == ret.value.hedge
        IN  /\ h.num_contracts > 0
            /\ h.delta > 0 => hedge.direction = "SHORT"
            /\ h.delta < 0 => hedge.direction = "LONG"
            /\ hedge.delta_exposure = h.delta * h.num_contracts * 100
            /\ hedge.shares = -hedge.delta_exposure
            /\ ReturnedFrom("hedge_call") => h.delta >= 0
            /\ ReturnedFrom("hedge_put") => h.delta <= 0

C11_Witness ==
    /\ ReturnedFrom("hedge_put")
    /\ ret.value.hedger.delta < 0
    /\ ret.value.hedger.num_contracts = 1
    /\ ret.value.hedge.direction = "LONG"
    /\ ret.value.hedge.delta_exposure < -10 * ONE

\* C12: in every hedge instruction 'shares' is a non-negative magnitude,
\* the sign being carried by 'direction' only, and capital is
\* shares * stock_price.
C12_SharesMagnitude ==
    HedgeReturned =>
        LET h == ret.value.hedger
            hedge == ret.value.hedge
        IN  /\ hedge.shares >= 0
            /\ hedge.capital = Mul(IDiv(hedge.shares, ONE \div PnlOne), h.stock_price)

\* the rolling 21-day volatilities of the analyzed history that are defined
DefinedHv == dropna(RollingVol(VolatilityAnalyzer(data.stock_data).returns, 21))

\* how many of them lie strictly below, and at or above, the current one
CountBelow(current) ==
    Cardinality({ i \in 1..Len(DefinedHv) : DefinedHv[i].v < current.v })
CountAtLeast(current) ==
    Cardinality({ i \in 1..Len(DefinedHv) : DefinedHv[i].v >= current.v })

\* C13: the percentile is 100 times the fraction of the defined rolling
\* 21-day volatilities strictly below the current one, and lies in [0,100];
\* the label is HIGH exactly when it is above 80, LOW exactly when it is
\* below 20, NORMAL otherwise (so also at exactly 80 and exactly 20).
C13_RegimeByPercentile ==
    (ReturnedFrom("analyze") /\ Len(DefinedHv) >= 1) =>
        LET n     == Len(DefinedHv)
            below == CountBelow(ret.value.hv_21d)
            pct   == ret.value.percentile
        IN  /\ ~pct.nan
            /\ Abs(pct.v * n - 100 * ONE * below) <= 100 * n
            /\ pct.v >= 0 /\ pct.v <= 100 * ONE
            /\ (ret.value.regime = "HIGH") <=> (100 * below > 80 * n)
            /\ (ret.value.regime = "LOW") <=> (100 * below < 20 * n)
            /\ (ret.value.regime = "NORMAL") <=>
                   (100 * below >= 20 * n /\ 100 * below <= 80 * n)
            /\ (ret.value.regime = "HIGH") <=> (pct.v > 80 * ONE)
            /\ (ret.value.regime = "LOW") <=> (pct.v < 20 * ONE)

C13_Witness ==
    /\ ReturnedFrom("analyze")
    /\ Len(DefinedHv) = 5
    /\ CountBelow(ret.value.hv_21d) = 4
    /\ ret.value.percentile = Float(80 * ONE)
    /\ ret.value.regime = "NORMAL"

\* the current rolling volatility is a maximum of the defined ones
CurrentIsMaximum ==
    /\ ReturnedFrom("analyze")
    /\ Len(DefinedHv) >= 1
    /\ \A i \in 1..Len(DefinedHv) : DefinedHv[i].v <= ret.value.hv_21d.v

PercentileOfMaximum ==
    LET n == Len(DefinedHv)
    IN  /\ Abs(ret.value.percentile.v * n - 100 * ONE * (n - 1)) <= 100 * n
        /\ (100 * (n - 1) > 80 * n) => ret.value.regime = "HIGH"

\* C14 as stated: when the current value equals the maximum of the n
\* defined rolling volatilities, the percentile is 100*(n-1)/n and the label
\* is HIGH whenever that exceeds 80.
C14_Original == CurrentIsMaximum => PercentileOfMaximum

\* C14 (amended): the same when the current value is the only maximum, that
\* is strictly above every other defined rolling volatility.
C14_UniqueMaximum ==
    (CurrentIsMaximum /\ CountAtLeast(ret.value.hv_21d) = 1) => PercentileOfMaximum

C14_Witness ==
    /\ CurrentIsMaximum
    /\ CountAtLeast(ret.value.hv_21d) = 1
    /\ Len(DefinedHv) = 6
    /\ ret.value.regime = "HIGH"

\* C15: with fewer than 21 valid returns analyze() reports hv_21d and the
\* regime, label and percentile, as undefined: never a label LOW, NORMAL or
\* HIGH.
C15_ShortHistoryUndefined ==
    (ReturnedFrom("analyze") /\ Len(VolatilityAnalyzer(data.stock_data).returns) < 21) =>
        /\ ret.value.hv_21d.nan
        /\ ret.value.percentile.nan
        /\ ret.value.regime \notin {"LOW", "NORMAL", "HIGH"}

\* C16: the returned rolling history has no entry for the first w-1 points
\* of a window: every entry of it is a defined value >= 0.
C16_HistoryDefined ==
    ReturnedFrom("analyze") =>
        \A column \in DOMAIN ret.value.hv_history :
            \A i \in 1..Len(ret.value.hv_history[column]) :
                /\ ~ret.value.hv_history[column][i].nan
                /\ ret.value.hv_history[column][i].v >= 0

SelectionReturned == ReturnedFrom("select_option") \/ ReturnedFrom("select_put_option")

\* +1 for a call selection, -1 for a put selection
SelectionSide == IF ret.op = "select_option" THEN 1 ELSE -1

\* how far out of the money a quote is, as a difference of prices
OtmDistance(row) == SelectionSide * (row.strike - data.current_price)

\* the quotes of the chain on the out-of-the-money side; those that pass the
\* strict filter (5% <= pct_otm <= 20%, open interest > 100); those that pass
\* the relaxed one (open interest > 50)
OtmQuotes == SelectSeq(data.chain, LAMBDA row : OtmDistance(row) > 0)
StrictQuotes ==
    SelectSeq(OtmQuotes, LAMBDA row : /\ 20 * OtmDistance(row) >= data.current_price
                                      /\ 5 * OtmDistance(row) <= data.current_price
                                      /\ row.openInterest > 100)
RelaxedQuotes == SelectSeq(OtmQuotes, LAMBDA row : row.openInterest > 50)
QuotesInUse == IF StrictQuotes # << >> THEN StrictQuotes ELSE RelaxedQuotes

Symbols(quotes) == { quotes[i].contractSymbol : i \in 1..Len(quotes) }

C18_Score(row) ==
    LET pct_otm    == 100 * Div(OtmDistance(row), data.current_price)
        spread_pct == 100 * Div(row.ask - row.bid, row.lastPrice)
    IN  (3 * Ln((1 + row.openInterest) * ONE)) \div 2
        - 2 * Abs(pct_otm - 10 * ONE) - spread_pct \div 2

\* the position in QuotesInUse of the returned contract
SelectedAt ==
    CHOOSE k \in 1..Len(QuotesInUse) :
        QuotesInUse[k].contractSymbol = ret.value.contract

\* C18: the selected contract is a row of the filter set in use with the
\* maximum score, the first such row in the set's order; its mid_price is
\* (bid + ask) / 2 of that row.
C18_FirstMaxScore ==
    (SelectionReturned /\ ~IsNone(ret.value)) =>
        LET best == QuotesInUse[SelectedAt]
        IN  /\ \A j \in 1..Len(QuotesInUse) :
                   C18_Score(QuotesInUse[j]) <= C18_Score(best)
            /\ \A j \in 1..(SelectedAt - 1) :
                   C18_Score(QuotesInUse[j]) < C18_Score(best)
            /\ ret.value.bid = best.bid /\ ret.value.ask = best.ask
            /\ Abs(2 * ret.value.mid_price - (best.bid + best.ask)) <= 1

C18_Witness ==
    /\ ReturnedFrom("select_option")
    /\ Len(QuotesInUse) = 3
    /\ QuotesInUse[2].contractSymbol = "C112"
    /\ QuotesInUse[3].contractSymbol = "C108"
    /\ ret.value.contract = "C112"
    /\ C18_Score(QuotesInUse[3]) = C18_Score(QuotesInUse[2])
    /\ C18_Score(QuotesInUse[1]) < C18_Score(QuotesInUse[2])

\* the chain has exactly one row in the band with open interest above
\* MIN_OPEN_INTEREST, and every other row is below MIN_OTM_PCT or has an open
\* interest at or below MIN_OPEN_INTEREST
OneRowInBand ==
    /\ Len(StrictQuotes) = 1
    /\ \A i \in 1..Len(data.chain) :
           \/ data.chain[i] = StrictQuotes[1]
           \/ 20 * OtmDistance(data.chain[i]) < data.current_price
           \/ data.chain[i].openInterest <= 100

\* C19: from such a chain select_option returns exactly that row, whatever
\* the scores, the spreads and the order of the other rows.
C19_OnlyRowInBand ==
    (ReturnedFrom("select_option") /\ OneRowInBand) =>
        /\ ~IsNone(ret.value)
        /\ ret.value.contract = StrictQuotes[1].contractSymbol
        /\ ret.value.strike = StrictQuotes[1].strike

C19_Witness ==
    /\ ReturnedFrom("select_option")
    /\ OneRowInBand
    /\ Len(data.chain) = 3
    /\ data.chain[1].contractSymbol = "C103"
    /\ data.chain[3].contractSymbol = "C120"
    /\ C18_Score(data.chain[1]) > C18_Score(data.chain[2])
    /\ ret.value.contract = "C105"

\* C20: when select_option returns no contract, run_analysis does not end
\* through an exception and exit status 1.
C20_NoSelectionNotFatal ==
    (/\ main.pc = "exit"
     /\ main.files.present
     /\ IsNone(select_option(main.option_chain, main.metadata.current_price))) =>
        /\ main.raised = "none"
        /\ main.exit_status = 0

\* the put step has run and select_put_option returned no contract
NoPutSelected ==
    /\ main.pc \in {"charts", "report"} \/ (main.pc = "exit" /\ main.raised = "none")
    /\ IsNone(main.put_selected)

PutSkipped ==
    /\ IsNone(main.put_pricer)
    /\ IsNone(main.put_pricing)
    /\ IsNone(main.put_greeks)
    /\ "call_put_comparison" \notin main.charts

ComparisonOnlyWithPut ==
    "call_put_comparison" \in main.charts =>
        ~IsNone(main.put_selected) /\ ~IsNone(main.put_pricing)

ReturnedSuccess ==
    /\ main.pc = "exit"
    /\ main.exit_status = 0
    /\ main.report
    /\ main.charts = {"all", "sensitivity_analysis"}

\* C21: when select_put_option returns no contract, the put is not priced,
\* has no Greeks and no comparison chart, yet the other charts and the
\* report are generated and the run eventually returns success; the
\* comparison chart exists only if a put was selected and priced.
C21_PutOptional ==
    /\ [](NoPutSelected => PutSkipped)
    /\ []ComparisonOnlyWithPut
    /\ (NoPutSelected ~> (ReturnedSuccess /\ PutSkipped))

C21_Witness ==
    /\ ReturnedSuccess
    /\ NoPutSelected
    /\ main.put_chain # << >>

SensitivityReturned == ReturnedFrom("generate_sensitivity_analysis")

\* C22: the volatility sweep has exactly 20 points; its multipliers are
\* evenly spaced and strictly increasing from exactly 0.5 to exactly 2.0;
\* each point is repriced at sigma * multiplier with S, K, T and r of the
\* engine and has pnl = (price - market_price) * 100 * num_contracts.
C22_VolSweep ==
    SensitivityReturned =>
        LET vol_sweep == ret.value.vol_sweep
        IN  /\ DOMAIN vol_sweep = 1..20
            /\ vol_sweep[1].vol_mult = ONE \div 2
            /\ vol_sweep[20].vol_mult = 2 * ONE
            /\ \A k \in 1..19 : vol_sweep[k].vol_mult < vol_sweep[k + 1].vol_mult
            /\ \A k \in 1..20 :
                   Abs(19 * vol_sweep[k].vol_mult
                       - (19 * (ONE \div 2) + (k - 1) * ((3 * ONE) \div 2))) < 19
            /\ \A k \in 1..20 :
                   LET point == vol_sweep[k]
                       a     == bs_args[k]
                   IN  /\ a.S = engine.S /\ a.K = engine.K
                       /\ a.T = engine.T /\ a.r = engine.r
                       /\ Abs(a.sigma - Mul(engine.sigma, point.vol_mult)) <= 1
                       /\ point.vol_pct = 100 * a.sigma
                       /\ point.price = BsCallAt(a)
                       /\ Abs(10 * point.pnl
                              - (point.price - engine.market_price)
                                * engine.num_contracts)
                          <= 10 * engine.num_contracts

C22_Witness ==
    /\ SensitivityReturned
    /\ engine.num_contracts = NUM_CONTRACTS
    /\ ret.value.vol_sweep[1].pnl < 0
    /\ ret.value.vol_sweep[20].pnl > 0

\* the whole days in the engine's T, and the day count the sweep starts from
WholeDays == (engine.T * 365) \div ONE
SweepStart == IF WholeDays < 2 THEN 30 ELSE WholeDays

\* max(1, dte - (dte - 1) * i / 29) in millionths of a day
C23_Dte(dte, i) ==
    LET whole == ((dte - 1) * i) \div 29
        rest  == ((dte - 1) * i) % 29
    IN  Max(ONE, (dte - whole) * ONE - (rest * ONE) \div 29)

C23_SweepShape ==
    SensitivityReturned =>
        LET time_sweep == ret.value.time_sweep
        IN  /\ DOMAIN time_sweep = 1..30
            /\ ret.value.current_dte = SweepStart
            /\ time_sweep[1].dte = SweepStart * ONE
            /\ time_sweep[30].dte = ONE
            /\ \A k \in 1..30 :
                   /\ Abs(time_sweep[k].dte - C23_Dte(SweepStart, k - 1)) <= 1
                   /\ time_sweep[k].dte >= ONE
                   /\ bs_args[20 + k].T = IDiv(time_sweep[k].dte, 365)
            /\ \A k \in 1..29 : time_sweep[k].dte >= time_sweep[k + 1].dte
            /\ \A k \in 1..20 : bs_args[k].T = engine.T

GreeksReturned == ret.op \in {"greeks_call", "greeks_put"} /\ ret.raised = "none"

\* the first term of the annual theta, the same for calls and puts:
\* -S * pdf(d1) * sigma / (2 * sqrt(T))
ThetaFirstTerm ==
    -Div(Mul(pricer.S, Mul(norm_pdf(get_d1(pricer)), pricer.sigma_iv)),
         2 * Sqrt(pricer.T))

\* the second term: -r*K*exp(-rT)*N(d2) for a call, +r*K*exp(-rT)*N(-d2)
\* for a put
ThetaSecondTerm ==
    IF ret.op = "greeks_call"
    THEN -Mul(Mul(pricer.r, DiscountedStrike(pricer.K, pricer.r, pricer.T)),
              norm_cdf(get_d2(pricer)))
    ELSE Mul(Mul(pricer.r, DiscountedStrike(pricer.K, pricer.r, pricer.T)),
             norm_cdf(-get_d2(pricer)))

\* rounding of the division by 365 and of the products
ThetaTol == 365 + (pricer.S + pricer.K) \div ONE

\* C24: in every record returned by calculate(), theta_daily is the annual
\* theta divided by 365, the annual theta being the common first term plus
\* -r*K*exp(-rT)*N(d2) for a call and +r*K*exp(-rT)*N(-d2) for a put;
\* theta_weekly = theta_daily * 7 and vega_dollar = vega * 100.
C24_ThetaAndVegaDollar ==
    GreeksReturned =>
        /\ Abs(365 * ret.value.theta_daily - (ThetaFirstTerm + ThetaSecondTerm))
               <= ThetaTol
        /\ ret.value.theta_weekly = ret.value.theta_daily * 7
        /\ ret.value.vega_dollar = ret.value.vega * 100

C24_Witness ==
    /\ ReturnedFrom("greeks_put")
    /\ pricer.r > 0
    /\ ThetaSecondTerm > 2 * ThetaTol
    /\ ret.value.theta_daily < 0
    /\ ret.value.vega_dollar > 0

\* what each operation returns is determined by the fields of the object it
\* is called on, and each scenario and each sweep point by the engine and
\* its own shock alone
ResultFromFields ==
    /\ ReturnedFrom("calculate") => ret.value = OptionPricer_calculate(pricer)
    /\ ReturnedFrom("calculate_put") => ret.value = calculate_put(pricer)
    /\ ReturnedFrom("greeks_call") =>
           ret.value = GreeksCalculator_calculate(GreeksCalculator(pricer, "call"))
    /\ ReturnedFrom("greeks_put") =>
           ret.value = GreeksCalculator_calculate(GreeksCalculator(pricer, "put"))
    /\ HedgeReturned =>
           /\ ret.value.hedger.stock_price = pricer.S
           /\ ret.value.hedge = HedgingAnalyzer_calculate(ret.value.hedger)
    /\ (ReturnedFrom("hedge_pnl_call") \/ ReturnedFrom("hedge_pnl_put")) =>
           /\ ret.value.hedger.stock_price = pricer.S
           /\ ret.value.pnl = get_hedge_pnl(ret.value.hedger, ret.value.price_change_pct)
    /\ ReturnedFrom("run") =>
           \A i \in 1..7 : ret.value.all[i] = ScenarioResult(engine, Scenarios[i])
    /\ SensitivityReturned =>
           /\ \A k \in 1..20 :
                  ret.value.vol_sweep[k].price = BsCallAt(VolSweepArgs(engine, k - 1))
           /\ \A k \in 1..30 :
                  ret.value.time_sweep[k].price = BsCallAt(TimeSweepArgs(engine, k - 1))

\* C25: no call, in any order, changes a field of the pricer or of the
\* engine (S, K, T, r, sigma_hv, sigma_iv, market_price, num_contracts), and
\* every result is determined by those fields: a repeated call returns an
\* equal result and the scenarios and sweep points do not depend on the
\* order they are evaluated in.
C25_Pure ==
    /\ [][pricer' = pricer /\ engine' = engine]_vars
    /\ []ResultFromFields
    /\ [](/\ pricer = OptionPricer(ctor.S, ctor.K, ctor.T, ctor.r,
                                   ctor.sigma_hv, ctor.sigma_iv)
          /\ engine = ScenarioEngine(pricer, engine.market_price,
                                     engine.num_contracts))

C25_Witness ==
    /\ ReturnedFrom("hedge_pnl_put")
    /\ ret.value.pnl > 0
    /\ ret.value.price_change_pct > 0
    /\ pricer = OptionPricer(ctor.S, ctor.K, ctor.T, ctor.r, ctor.sigma_hv, ctor.sigma_iv)

\* no step after the load step has left a result
NothingAfterLoad ==
    /\ IsNone(main.selected) /\ IsNone(main.vol_metrics)
    /\ IsNone(main.pricer) /\ IsNone(main.pricing) /\ IsNone(main.greeks)
    /\ IsNone(main.hedge) /\ IsNone(main.scenarios)
    /\ IsNone(main.sensitivity_data) /\ IsNone(main.put_selected)
    /\ main.charts = {} /\ ~main.report

\* without the data files the run is at the load step or has ended there
\* with the error printed and status 1
AbortsAtLoad ==
    ~main.files.present =>
        /\ main.pc \in {"load", "exit"}
        /\ NothingAfterLoad
        /\ main.pc = "exit" =>
               main.raised = "FileNotFoundError" /\ main.exit_status = 1

\* the report exists only after every earlier step has left its result
ReportComesLast ==
    main.report =>
        /\ main.files.present
        /\ ~IsNone(main.stock_data) /\ ~IsNone(main.metadata)
        /\ ~IsNone(main.selected) /\ ~IsNone(main.vol_metrics)
        /\ ~IsNone(main.pricing) /\ ~IsNone(main.greeks)
        /\ ~IsNone(main.hedge) /\ ~IsNone(main.scenarios)
        /\ {"all", "sensitivity_analysis"} \subseteq main.charts

\* C26: when the market data is absent the run ends at the load step, before
\* any selection, pricing, chart or report step, with an error message and
\* exit status 1; the report is written only after loading, selection,
\* volatility, pricing, Greeks, hedging, scenarios and charts are done; exit
\* status 0 occurs only after the report was written.
C26_AbortAndOrder ==
    /\ []AbortsAtLoad
    /\ [][(main.pc = "load" /\ ~main.files.present) =>
              (main'.pc = "exit" /\ main'.exit_status = 1)]_vars
    /\ []ReportComesLast
    /\ [](main.exit_status = 0 => main.report)
    /\ [][main'.report /\ ~main.report => main.pc = "report"]_vars

C26_Witness ==
    /\ ~main.files.present
    /\ main.pc = "exit"
    /\ main.raised = "FileNotFoundError"
    /\ main.exit_status = 1

\* the pricer that holds the S, K, T, r of one _bs_call evaluation
PricerOf(a) == OptionPricer(a.S, a.K, a.T, a.r, a.sigma, a.sigma)

\* the evaluations the claim is about: T >= 0.001 and sigma > 0
InClaimedRange(a) == a.T >= 1000 /\ a.sigma > 0 /\ ~BsCallRaises(a)

Unshocked ==
    /\ ReturnedFrom("_calculate_scenario_pnl")
    /\ ret.value.shock = <<0, 0, 0>>
    /\ pricer.sigma_iv >= 50000

\* C27: ScenarioEngine._bs_call(S, K, T, r, sigma) equals
\* OptionPricer._bs_call_price(sigma) of a pricer with the same S, K, T, r
\* whenever T >= 0.001 and sigma > 0; a scenario with no stock change, no
\* volatility change and no elapsed day is priced at pricer.get_price_iv()
\* whenever sigma_iv >= 0.05.
C27_SameCallFormula ==
    /\ \A i \in 1..Len(bs_args) :
           InClaimedRange(bs_args[i]) =>
               _bs_call(bs_args[i].S, bs_args[i].K, bs_args[i].T, bs_args[i].r,
                        bs_args[i].sigma)
                   = _bs_call_price(PricerOf(bs_args[i]), bs_args[i].sigma)
    /\ Unshocked =>
           /\ bs_args[1] = PricerArgs(pricer, pricer.sigma_iv)
           /\ ret.value.pnl = Times100(get_price_iv(pricer) - engine.market_price)
                                  * engine.num_contracts

C27_Witness ==
    /\ Unshocked
    /\ InClaimedRange(bs_args[1])
    /\ pricer.T > TFloor
    /\ get_price_iv(pricer) > ONE
    /\ ret.value.pnl > 0
=============================================================================
